---- MODULE Spec2Model ----
(***************************************************************************)
(* A model of the programs of the golang_practice repository:              *)
(*   server/index.js      an Express server with GET /get and POST /post   *)
(*   webserver/main.go    a Go client of http://localhost:3000/get         *)
(*   webrequest/main.go   a Go client of https://github.com/mUsman2003     *)
(*   the url program      url.Parse of a constant and its printed parts    *)
(*   the error program    doSomething and the branch on its error          *)
(* Text is a sequence of one-character strings, so that parsing,           *)
(* formatting and re-serialisation are computed and not assumed.           *)
(***************************************************************************)
EXTENDS Integers, Sequences, FiniteSets, TLC

----------------------------------------------------------------------------
(* Text helpers *)

Digits == <<"0","1","2","3","4","5","6","7","8","9">>

IsDigit(c) == \E i \in 1..10 : Digits[i] = c

DigitVal(c) == (CHOOSE i \in 1..10 : Digits[i] = c) - 1

RECURSIVE NatChars(_)
NatChars(n) == IF n < 10 THEN <<Digits[n + 1]>>
               ELSE NatChars(n \div 10) \o <<Digits[(n % 10) + 1]>>

\* decimal text of an integer, as strconv / Number::toString give it
IntChars(n) == IF n < 0 THEN <<"-">> \o NatChars(0 - n) ELSE NatChars(n)

RECURSIVE CharsNat(_, _)
CharsNat(s, acc) == IF s = <<>> THEN acc
                    ELSE CharsNat(Tail(s), acc * 10 + DigitVal(Head(s)))

AllDigits(s) == \A i \in 1..Len(s) : IsDigit(s[i])

\* the printable ASCII characters, from code 32 (space) to code 126 (the
\* grave accent, code 96, is written out)
Ascii ==
    <<" ", "!", "\"", "#", "$", "%", "&", "'", "(", ")", "*", "+", ",", "-", ".", "/",
      "0", "1", "2", "3", "4", "5", "6", "7", "8", "9", ":", ";", "<", "=", ">", "?",
      "@", "A", "B", "C", "D", "E", "F", "G", "H", "I", "J", "K", "L", "M", "N", "O",
      "P", "Q", "R", "S", "T", "U", "V", "W", "X", "Y", "Z", "[", "\\", "]", "^", "_",
      "grave", "a", "b", "c", "d", "e", "f", "g", "h", "i", "j", "k", "l", "m", "n", "o",
      "p", "q", "r", "s", "t", "u", "v", "w", "x", "y", "z", "{", "|", "}", "~">>

\* the character's code
Code(c) == 31 + (CHOOSE i \in 1..Len(Ascii) : Ascii[i] = c)

IsUpper(c) == \E i \in 34..59 : Ascii[i] = c

IsLower(c) == \E i \in 66..91 : Ascii[i] = c

IsAlpha(c) == IsUpper(c) \/ IsLower(c)

ToLowerChar(c) == IF IsUpper(c) THEN Ascii[Code(c) + 32 - 31] ELSE c

ToLower(s) == [i \in 1..Len(s) |-> ToLowerChar(s[i])]

\* index of the first / last occurrence of c in s, 0 when there is none
IndexOf(s, c) == IF \E i \in 1..Len(s) : s[i] = c
                 THEN CHOOSE i \in 1..Len(s) : s[i] = c /\ \A j \in 1..(i - 1) : s[j] # c
                 ELSE 0

LastIndexOf(s, c) == IF \E i \in 1..Len(s) : s[i] = c
                     THEN CHOOSE i \in 1..Len(s) : s[i] = c /\ \A j \in (i + 1)..Len(s) : s[j] # c
                     ELSE 0

HasPrefix(s, p) == Len(s) >= Len(p) /\ SubSeq(s, 1, Len(p)) = p

Drop(s, n) == SubSeq(s, n + 1, Len(s))

----------------------------------------------------------------------------
(* JSON, as JSON.parse and JSON.stringify of the JavaScript runtime treat   *)
(* objects, arrays, strings without escapes and integers.                   *)
(* A value is [t |-> "obj", v |-> <<<<key, value>>, ...>>] in property      *)
(* order, [t |-> "arr", v |-> <<value, ...>>], [t |-> "str", v |-> chars],  *)
(* [t |-> "num", v |-> integer] or Undefined.                               *)

Undefined == [t |-> "undefined", v |-> <<>>]

EmptyObject == [t |-> "obj", v |-> <<>>]

JsonFail == [ok |-> FALSE, val |-> Undefined, rest |-> <<>>]

RECURSIVE SkipWs(_)
SkipWs(s) == IF s # <<>> /\ Head(s) = " " THEN SkipWs(Tail(s)) ELSE s

\* an array index key: "0" or a digit string without a leading zero
IsIndexKey(k) == /\ k # <<>>
                 /\ AllDigits(k)
                 /\ (Len(k) = 1 \/ k[1] # "0")

HasKey(kv, k) == \E i \in 1..Len(kv) : kv[i][1] = k

\* number of properties of kv that come before a new key k in property order
PropsBefore(kv, k) ==
    IF IsIndexKey(k)
    THEN Cardinality({i \in 1..Len(kv) :
                        IsIndexKey(kv[i][1]) /\ CharsNat(kv[i][1], 0) < CharsNat(k, 0)})
    ELSE Len(kv)

\* obj[k] = v on an ordinary object: an existing property keeps its place,
\* a new index key goes among the index keys in ascending order, any other
\* new key goes last
DefineProp(kv, k, v) ==
    IF HasKey(kv, k)
    THEN [i \in 1..Len(kv) |-> IF kv[i][1] = k THEN <<k, v>> ELSE kv[i]]
    ELSE LET n == PropsBefore(kv, k)
         IN  SubSeq(kv, 1, n) \o <<<<k, v>>>> \o SubSeq(kv, n + 1, Len(kv))

ParseString(s) ==
    IF s = <<>> \/ Head(s) # "\"" THEN JsonFail
    ELSE LET close == IndexOf(Tail(s), "\"")
         IN  IF close = 0 THEN JsonFail
             ELSE [ok |-> TRUE,
                   val |-> [t |-> "str", v |-> SubSeq(Tail(s), 1, close - 1)],
                   rest |-> Drop(Tail(s), close)]

RECURSIVE DigitRun(_)
DigitRun(s) == IF s # <<>> /\ IsDigit(Head(s)) THEN 1 + DigitRun(Tail(s)) ELSE 0

ParseNumber(s) ==
    LET neg == s # <<>> /\ Head(s) = "-"
        d   == IF neg THEN Tail(s) ELSE s
        n   == DigitRun(d)
    IN  IF n = 0 \/ (n > 1 /\ d[1] = "0") THEN JsonFail
        ELSE [ok |-> TRUE,
              val |-> [t |-> "num",
                       v |-> IF neg THEN 0 - CharsNat(SubSeq(d, 1, n), 0)
                             ELSE CharsNat(SubSeq(d, 1, n), 0)],
              rest |-> Drop(d, n)]

RECURSIVE ParseValue(_)
RECURSIVE ParseMembers(_, _)
RECURSIVE ParseElements(_, _)

ParseMembers(s, kv) ==
    LET k == ParseString(SkipWs(s))
    IN  IF ~k.ok THEN JsonFail
        ELSE LET c == SkipWs(k.rest)
             IN  IF c = <<>> \/ Head(c) # ":" THEN JsonFail
                 ELSE LET v == ParseValue(SkipWs(Tail(c)))
                      IN  IF ~v.ok THEN JsonFail
                          ELSE LET r   == SkipWs(v.rest)
                                   kv2 == DefineProp(kv, k.val.v, v.val)
                               IN  IF r = <<>> THEN JsonFail
                                   ELSE IF Head(r) = "," THEN ParseMembers(Tail(r), kv2)
                                   ELSE IF Head(r) = "}"
                                        THEN [ok |-> TRUE,
                                              val |-> [t |-> "obj", v |-> kv2],
                                              rest |-> Tail(r)]
                                   ELSE JsonFail

ParseElements(s, els) ==
    LET v == ParseValue(SkipWs(s))
    IN  IF ~v.ok THEN JsonFail
        ELSE LET r    == SkipWs(v.rest)
                 els2 == Append(els, v.val)
             IN  IF r = <<>> THEN JsonFail
                 ELSE IF Head(r) = "," THEN ParseElements(Tail(r), els2)
                 ELSE IF Head(r) = "]"
                      THEN [ok |-> TRUE, val |-> [t |-> "arr", v |-> els2], rest |-> Tail(r)]
                 ELSE JsonFail

ParseValue(s) ==
    IF s = <<>> THEN JsonFail
    ELSE IF Head(s) = "{"
         THEN LET r == SkipWs(Tail(s))
              IN  IF r # <<>> /\ Head(r) = "}"
                  THEN [ok |-> TRUE, val |-> EmptyObject, rest |-> Tail(r)]
                  ELSE ParseMembers(r, <<>>)
    ELSE IF Head(s) = "["
         THEN LET r == SkipWs(Tail(s))
              IN  IF r # <<>> /\ Head(r) = "]"
                  THEN [ok |-> TRUE, val |-> [t |-> "arr", v |-> <<>>], rest |-> Tail(r)]
                  ELSE ParseElements(r, <<>>)
    ELSE IF Head(s) = "\"" THEN ParseString(s)
    ELSE ParseNumber(s)

\* JSON.parse(text): [ok, val]; the whole text must be one value
JSONparse(text) ==
    LET r == ParseValue(SkipWs(text))
    IN  IF r.ok /\ SkipWs(r.rest) = <<>> THEN [ok |-> TRUE, val |-> r.val]
        ELSE [ok |-> FALSE, val |-> Undefined]

RECURSIVE Stringify(_)
RECURSIVE StringifyProps(_)
RECURSIVE StringifyItems(_)

StringifyProps(kv) ==
    IF kv = <<>> THEN <<>>
    ELSE <<"\"">> \o kv[1][1] \o <<"\"", ":">> \o Stringify(kv[1][2])
         \o (IF Len(kv) > 1 THEN <<",">> \o StringifyProps(Tail(kv)) ELSE <<>>)

StringifyItems(els) ==
    IF els = <<>> THEN <<>>
    ELSE Stringify(els[1])
         \o (IF Len(els) > 1 THEN <<",">> \o StringifyItems(Tail(els)) ELSE <<>>)

Stringify(val) ==
    IF val.t = "obj" THEN <<"{">> \o StringifyProps(val.v) \o <<"}">>
    ELSE IF val.t = "arr" THEN <<"[">> \o StringifyItems(val.v) \o <<"]">>
    ELSE IF val.t = "str" THEN <<"\"">> \o val.v \o <<"\"">>
    ELSE IF val.t = "num" THEN IntChars(val.v)
    ELSE <<"u","n","d","e","f","i","n","e","d">>

\* `${JSON.stringify(data)}`: JSON.stringify(undefined) is undefined, which
\* the template literal renders as the text undefined
JSONstringify(val) == Stringify(val)

----------------------------------------------------------------------------
(* server/index.js: the Express application *)

\* const PORT = 3000
PORT == 3000

HelloText == <<"H","e","l","l","o"," ","f","r","o","m"," ","G","E","T","!">>

ReceivedPrefix == <<"R","e","c","e","i","v","e","d"," ","d","a","t","a",":"," ">>

RunningText == <<"S","e","r","v","e","r"," ","i","s"," ","r","u","n","n","i","n","g"," ","o","n"," ","h","t","t","p",":","/","/","l","o","c","a","l","h","o","s","t",":">>

CannotText == <<"C","a","n","n","o","t"," ">>

BadRequestText == <<"B","a","d"," ","R","e","q","u","e","s","t">>

AddrInUseText == <<"E","r","r","o","r",":"," ","l","i","s","t","e","n"," ","E","A","D","D","R","I","N","U","S","E",":"," ","a","d","d","r","e","s","s"," ","a","l","r","e","a","d","y"," ","i","n"," ","u","s","e"," ",":",":",":">>

PathGet == <<"/","g","e","t">>

PathPost == <<"/","p","o","s","t">>

PathGetSlash == <<"/","g","e","t","/">>

PathOther == <<"/","o","t","h","e","r">>

BodyA1 == <<"{","\"","a","\"",":","1","}">>

BodyTruncated == <<"{","\"","a","\"",":">>


MethodText(m) ==
    CASE m = "GET"     -> <<"G","E","T">>
      [] m = "POST"    -> <<"P","O","S","T">>
      [] m = "HEAD"    -> <<"H","E","A","D">>
      [] m = "PUT"     -> <<"P","U","T">>
      [] m = "OPTIONS" -> <<"O","P","T","I","O","N","S">>

\* No validator sent (no If-None-Match header)
NoTag == <<>>

\* The entity tag res.send computes from the body it sends; a request's
\* If-None-Match is modelled by the tag it carries
ETag(text) == <<"W/">> \o text

NoRes == [status |-> 0, body |-> <<>>, ran |-> "none"]

\* What the body parser leaves in req.body when it parses nothing: {} with
\* the body-parser of Express 4, undefined with that of Express 5
UnparsedBody(major) == IF major = 4 THEN EmptyObject ELSE Undefined

\* A faulty middleware, which swallows the parse error and hands an empty
\* object to the routes: C19 fails of it
JsonMiddleware_Lenient(req, major) ==
    IF ~req.hasBody \/ req.ctype # "application/json"
    THEN [next |-> TRUE, body |-> UnparsedBody(major), status |-> 0]
    ELSE IF JSONparse(req.body).ok
    THEN [next |-> TRUE, body |-> JSONparse(req.body).val, status |-> 0]
    ELSE [next |-> TRUE, body |-> EmptyObject, status |-> 0]

\* app.use(express.json()): runs first on every request, whatever its method
\* and path. It parses only a body declared application/json; in strict mode
\* the text must start an object or an array. [next, body, status]
JsonMiddleware(req, major) ==
    IF ~req.hasBody \/ req.ctype # "application/json"
    THEN [next |-> TRUE, body |-> UnparsedBody(major), status |-> 0]
    ELSE IF req.body = <<>>
    THEN [next |-> TRUE, body |-> EmptyObject, status |-> 0]
    ELSE LET first  == SkipWs(req.body)
             parsed == JSONparse(req.body)
         IN  IF first # <<>> /\ Head(first) \in {"{", "["} /\ parsed.ok
             THEN [next |-> TRUE, body |-> parsed.val, status |-> 0]
             ELSE [next |-> FALSE, body |-> Undefined, status |-> 400]

\* res.send(text): status 200, or 304 for a GET or HEAD whose validator
\* matches; no body is written for 304 and for HEAD
ResSend(req, text, handler) ==
    LET fresh == req.method \in {"GET", "HEAD"} /\ req.inm = ETag(text)
    IN  [status |-> IF fresh THEN 304 ELSE 200,
         body   |-> IF fresh \/ req.method = "HEAD" THEN <<>> ELSE text,
         ran    |-> handler]

\* A faulty get handler, which sends the other route's text: C1 fails of it
GetHandler_WrongText(req) == ResSend(req, ReceivedPrefix, "get")

\* app.get('/get', ...)
GetHandler(req) == ResSend(req, HelloText, "get")

\* A faulty post handler, which echoes the text of the request instead of
\* the serialisation of the parsed body: C2 fails of it
PostHandler_RawEcho(req, data) == ResSend(req, ReceivedPrefix \o req.body, "post")

\* app.post('/post', ...): data = req.body
PostHandler(req, data) == ResSend(req, ReceivedPrefix \o JSONstringify(data), "post")

\* A route's path matches without regard to case and with an optional
\* trailing slash (the router's defaults)
PathMatches(routePath, path) ==
    LET p == ToLower(path)
        q == IF Len(p) > 1 /\ p[Len(p)] = "/" THEN SubSeq(p, 1, Len(p) - 1) ELSE p
    IN  q = ToLower(routePath)

\* A faulty registration, app.all in place of app.get and app.post: C3
\* fails of it
HandlesMethod_All(routeMethod, m) == TRUE

\* app.get also serves HEAD when no head route is registered
HandlesMethod(routeMethod, m) ==
    m = routeMethod \/ (routeMethod = "GET" /\ m = "HEAD")

\* The framework's answer when no route handled the request
NotFound(req) ==
    [status |-> 404,
     body   |-> IF req.method = "HEAD" THEN <<>>
                ELSE CannotText \o MethodText(req.method) \o <<" ">> \o req.path,
     ran    |-> "none"]

\* The router over the two registered routes, in registration order; an
\* OPTIONS request to a registered path is answered with the allowed methods
Router(req, data) ==
    IF PathMatches(PathGet, req.path) /\ HandlesMethod("GET", req.method)
    THEN GetHandler(req)
    ELSE IF PathMatches(PathPost, req.path) /\ HandlesMethod("POST", req.method)
    THEN PostHandler(req, data)
    ELSE IF req.method = "OPTIONS" /\ PathMatches(PathGet, req.path)
    THEN [status |-> 200, body |-> <<"G","E","T",",","H","E","A","D">>, ran |-> "none"]
    ELSE IF req.method = "OPTIONS" /\ PathMatches(PathPost, req.path)
    THEN [status |-> 200, body |-> <<"P","O","S","T">>, ran |-> "none"]
    ELSE NotFound(req)

\* The application: middleware, then the router; a middleware error goes to
\* the default error handler
Handle(req, major) ==
    LET m == JsonMiddleware(req, major)
    IN  IF m.next THEN Router(req, m.body)
        ELSE [status |-> m.status,
              body   |-> IF req.method = "HEAD" THEN <<>> ELSE BadRequestText,
              ran    |-> "none"]

Methods == {"GET", "POST", "HEAD", "PUT", "OPTIONS"}

Paths == {PathGet, PathPost, <<"/","G","E","T">>, PathGetSlash, PathOther}

\* the bodies posted: objects (plain, with whitespace, with a repeated key,
\* with an index key, with -0, nested), a truncated object, an array, a
\* scalar and the empty body
JsonBodies ==
    {BodyA1,
     <<"{"," ","\"","a","\""," ",":"," ","1"," ","}">>,
     <<"{","\"","a","\"",":","1",",","\"","a","\"",":","2","}">>,
     <<"{","\"","b","\"",":","1",",","\"","1","\"",":","2","}">>,
     <<"{","\"","a","\"",":","-","0","}">>,
     <<"{","\"","a","\"",":","{","\"","b","\"",":","[","1",",","\"","x","\"","]","}","}">>,
     BodyTruncated,
     <<"[","1","]">>,
     <<"1">>,
     <<>>}

Bare(m, p) == [method |-> m, path |-> p, ctype |-> "", hasBody |-> FALSE,
               body |-> <<>>, inm |-> NoTag]

WithBody(m, p, ct, b) == [method |-> m, path |-> p, ctype |-> ct, hasBody |-> TRUE,
                          body |-> b, inm |-> NoTag]

\* The requests a client may send: every method on the routes' paths and on
\* another path, GET and POST on the other spellings of /get, JSON and other
\* bodies on the routes, and conditional requests
Requests ==
    {Bare(m, p) : m \in Methods, p \in {PathGet, PathPost, PathOther}}
    \cup {Bare(m, p) : m \in {"GET", "POST"}, p \in Paths}
    \cup {WithBody("POST", PathPost, "application/json", b) : b \in JsonBodies}
    \cup {WithBody("POST", PathPost, "text/plain", BodyA1)}
    \cup {WithBody(m, p, "application/json", b) :
            m \in {"GET"}, p \in {PathGet, PathOther}, b \in {BodyA1, BodyTruncated}}
    \cup {[Bare("GET", PathGet) EXCEPT !.inm = t] : t \in {ETag(HelloText), ETag(BodyA1)}}
    \cup {[Bare("HEAD", PathGet) EXCEPT !.inm = ETag(HelloText)]}

----------------------------------------------------------------------------
(* The Go clients: webserver/main.go and webrequest/main.go *)

\* const myurl = "http://localhost:3000/get": the port and the request
LocalPort == 3000

LocalRequest == Bare("GET", PathGet)

LocalBanner == <<"L","o","c","a","l"," ","h","o","s","t">>

StatusLabel == <<"S","t","a","t","u","s"," ","c","o","d","e",":"," ">>

LengthLabel == <<"C","O","n","t","e","n","t"," ","L","e","n","g","t","h",":"," ">>

WebBanner == <<"W","e","b","R","e","q","u","e","s","t"," ","P","r","a","c","t","i","c","e">>

DataLabel == <<"D","a","t","a","%","v">>

\* fmt.Println(a, b): the operands' default formats separated by a space
\* (the newline ends the line)
Println2(a, b) == a \o <<" ">> \o b

NoResp == [status |-> 0, contentLength |-> 0, body |-> <<>>]

NoErr == "nil"

ConnRefused == "connect: connection refused"

\* the ways a GET can fail below the application layer
TransportErrors == {ConnRefused, "no such host", "i/o timeout"}

\* a body read that stops early
ReadErrors == {"unexpected EOF", "connection reset by peer"}

\* what a server that is not index.js may answer
OtherResponses ==
    {[status |-> 200, contentLength |-> 0 - 1, body |-> <<"<","h","t","m","l",">">>],
     [status |-> 404, contentLength |-> 9,
      body |-> <<"N","o","t"," ","F","o","u","n","d">>]}

\* the response net/http hands to the client for an Express response:
\* res.send sets Content-Length to the length of the body
ClientResponse(res) == [status |-> res.status, contentLength |-> Len(res.body), body |-> res.body]

\* ioutil.ReadAll over a stream of which n bytes arrive before it ends with
\* err: the bytes read so far are returned together with the error
ReadAll(body, n, err) == [data |-> SubSeq(body, 1, n), err |-> err]

\* the outcomes of reading a body: all of it, or a prefix and an error
ReadOutcomes(body) ==
    {[n |-> Len(body), err |-> NoErr]}
    \cup {[n |-> k, err |-> e] : k \in 0..Len(body), e \in ReadErrors}

----------------------------------------------------------------------------
(* net/url, as the url program uses it: url.Parse, URL.Port,             *)
(* URL.Query and the String method of the user-info.                     *)

IsHex(c) == IsDigit(c) \/ c \in {"a","b","c","d","e","f","A","B","C","D","E","F"}

HexVal(c) == IF IsDigit(c) THEN DigitVal(c)
             ELSE IF IsUpper(c) THEN Code(c) - 55
             ELSE Code(c) - 87

HexDigits == <<"0","1","2","3","4","5","6","7","8","9","A","B","C","D","E","F">>

\* the character of a byte; a byte outside printable ASCII has no character
\* in this model and is written "?"
ByteChar(b) == IF b \in 32..126 THEN Ascii[b - 31] ELSE "?"

\* strings.Cut(s, c)
Cut(s, c) ==
    LET i == IndexOf(s, c)
    IN  IF i = 0 THEN [before |-> s, after |-> <<>>, found |-> FALSE]
        ELSE [before |-> SubSeq(s, 1, i - 1), after |-> Drop(s, i), found |-> TRUE]

Count(s, c) == Cardinality({i \in 1..Len(s) : s[i] = c})

\* shouldEscape(c, mode)
ShouldEscape(c, mode) ==
    IF IsAlpha(c) \/ IsDigit(c) THEN FALSE
    ELSE IF mode = "host"
            /\ c \in {"!", "$", "&", "'", "(", ")", "*", "+", ",", ";", "=", ":",
                      "[", "]", "<", ">", "\""}
    THEN FALSE
    ELSE IF c \in {"-", "_", ".", "~"} THEN FALSE
    ELSE IF c \in {"$", "&", "+", ",", "/", ":", ";", "=", "?", "@"}
    THEN CASE mode = "path"           -> c = "?"
           [] mode = "userPassword"   -> c \in {"@", "/", "?", ":"}
           [] mode = "queryComponent" -> TRUE
           [] mode = "fragment"       -> FALSE
           [] OTHER                   -> TRUE
    ELSE IF mode = "fragment" /\ c \in {"!", "(", ")", "*"} THEN FALSE
    ELSE TRUE

\* the pieces of a text joined, by halves
RECURSIVE Flatten(_)
Flatten(pieces) ==
    IF pieces = <<>> THEN <<>>
    ELSE IF Len(pieces) = 1 THEN pieces[1]
    ELSE LET h == Len(pieces) \div 2
         IN  Flatten(SubSeq(pieces, 1, h)) \o Flatten(SubSeq(pieces, h + 1, Len(pieces)))

\* position i of s is one of the two hex digits of an escape
InEscape(s, i) == (i > 1 /\ s[i - 1] = "%") \/ (i > 2 /\ s[i - 2] = "%")

\* what stops the first pass of unescape(s, mode) at position i
EscapeFault(s, i, mode) ==
    IF s[i] = "%"
    THEN IF i + 2 > Len(s) \/ ~IsHex(s[i + 1]) \/ ~IsHex(s[i + 2]) THEN "invalid URL escape"
         ELSE IF mode = "host" /\ HexVal(s[i + 1]) < 8
                 /\ SubSeq(s, i, i + 2) # <<"%", "2", "5">>
         THEN "invalid URL escape"
         ELSE NoErr
    ELSE IF mode = "host" /\ s[i] # "+" /\ ShouldEscape(s[i], "host")
    THEN "invalid character in host name"
    ELSE NoErr

\* the first pass of unescape(s, mode): the error of the first position
\* that stops it, or NoErr
UnescapeError(s, mode) ==
    LET faults == {i \in 1..Len(s) : EscapeFault(s, i, mode) # NoErr}
    IN  IF faults = {} THEN NoErr
        ELSE EscapeFault(s, CHOOSE i \in faults : \A j \in faults : i <= j, mode)

\* the second pass of unescape(s, mode), on a text the first pass accepted
UnescapeText(s, mode) ==
    Flatten([i \in 1..Len(s) |->
               IF InEscape(s, i) THEN <<>>
               ELSE IF s[i] = "%" THEN <<ByteChar(16 * HexVal(s[i + 1]) + HexVal(s[i + 2]))>>
               ELSE IF s[i] = "+" /\ mode = "queryComponent" THEN <<" ">>
               ELSE <<s[i]>>])

\* the end of unescape(s, mode), e the error of its first pass
UnescapeChecked(s, mode, e) ==
    IF e # NoErr THEN [val |-> <<>>, err |-> e]
    ELSE [val |-> UnescapeText(s, mode), err |-> NoErr]

\* unescape(s, mode): [val, err]
Unescape(s, mode) == UnescapeChecked(s, mode, UnescapeError(s, mode))

\* escape(s, mode)
Escape(s, mode) ==
    Flatten([i \in 1..Len(s) |->
               IF s[i] = " " /\ mode = "queryComponent" THEN <<"+">>
               ELSE IF ShouldEscape(s[i], mode)
               THEN <<"%", HexDigits[(Code(s[i]) \div 16) + 1], HexDigits[(Code(s[i]) % 16) + 1]>>
               ELSE <<s[i]>>])

\* getScheme(rawURL), scanning from position i: [scheme, rest, err]
RECURSIVE GetSchemeFrom(_, _)
GetSchemeFrom(s, i) ==
    IF i > Len(s) THEN [scheme |-> <<>>, rest |-> s, err |-> NoErr]
    ELSE IF IsAlpha(s[i]) THEN GetSchemeFrom(s, i + 1)
    ELSE IF IsDigit(s[i]) \/ s[i] \in {"+", "-", "."}
    THEN IF i = 1 THEN [scheme |-> <<>>, rest |-> s, err |-> NoErr]
         ELSE GetSchemeFrom(s, i + 1)
    ELSE IF s[i] = ":"
    THEN IF i = 1 THEN [scheme |-> <<>>, rest |-> <<>>, err |-> "missing protocol scheme"]
         ELSE [scheme |-> SubSeq(s, 1, i - 1), rest |-> Drop(s, i), err |-> NoErr]
    ELSE [scheme |-> <<>>, rest |-> s, err |-> NoErr]

GetScheme(rawURL) == GetSchemeFrom(rawURL, 1)

\* validOptionalPort(port): "" or ":" followed by digits
ValidOptionalPort(port) ==
    port = <<>> \/ (Head(port) = ":" /\ AllDigits(Tail(port)))

\* validUserinfo(s)
ValidUserinfo(s) ==
    \A i \in 1..Len(s) :
        \/ IsAlpha(s[i]) \/ IsDigit(s[i])
        \/ s[i] \in {"-", ".", "_", ":", "~", "!", "$", "&", "'", "(", ")", "*", "+",
                     ",", ";", "=", "%", "@"}

\* parseHost(host): [val, err]
ParseHost(host) ==
    LET bracket == HasPrefix(host, <<"[">>)
        i       == IF bracket THEN LastIndexOf(host, "]") ELSE LastIndexOf(host, ":")
    IN  IF bracket /\ i = 0 THEN [val |-> <<>>, err |-> "missing ']' in host"]
        ELSE IF \/ bracket /\ ~ValidOptionalPort(Drop(host, i))
                \/ ~bracket /\ i # 0 /\ ~ValidOptionalPort(Drop(host, i - 1))
        THEN [val |-> <<>>, err |-> "invalid port after host"]
        ELSE Unescape(host, "host")

NoUser == [set |-> FALSE, username |-> <<>>, password |-> <<>>, passwordSet |-> FALSE]

\* url.User(username) or url.UserPassword(username, password), of the
\* unescaped name u and password w: [user, err]
MakeUser(u, w, passwordSet) ==
    IF u.err # NoErr THEN [user |-> NoUser, err |-> u.err]
    ELSE IF w.err # NoErr THEN [user |-> NoUser, err |-> w.err]
    ELSE [user |-> [set |-> TRUE, username |-> u.val, password |-> w.val,
                    passwordSet |-> passwordSet],
          err |-> NoErr]

\* the user-info half of parseAuthority: [user, err]
ParseUserinfo(userinfo) ==
    IF ~ValidUserinfo(userinfo) THEN [user |-> NoUser, err |-> "invalid userinfo"]
    ELSE IF IndexOf(userinfo, ":") = 0
    THEN MakeUser(Unescape(userinfo, "userPassword"), [val |-> <<>>, err |-> NoErr], FALSE)
    ELSE MakeUser(Unescape(Cut(userinfo, ":").before, "userPassword"),
                  Unescape(Cut(userinfo, ":").after, "userPassword"), TRUE)

\* the result of parseAuthority from the parsed host h and the parsed
\* user-info p
JoinAuthority(h, p) ==
    IF h.err # NoErr THEN [user |-> NoUser, host |-> <<>>, err |-> h.err]
    ELSE IF p.err # NoErr THEN [user |-> NoUser, host |-> <<>>, err |-> p.err]
    ELSE [user |-> p.user, host |-> h.val, err |-> NoErr]

\* parseAuthority(authority): [user, host, err]
ParseAuthority(authority) ==
    LET i == LastIndexOf(authority, "@")
    IN  JoinAuthority(ParseHost(Drop(authority, i)),
                      IF i = 0 THEN [user |-> NoUser, err |-> NoErr]
                      ELSE ParseUserinfo(SubSeq(authority, 1, i - 1)))

NoURL == [Scheme |-> <<>>, Opaque |-> <<>>, User |-> NoUser, Host |-> <<>>, Path |-> <<>>,
          RawPath |-> <<>>, ForceQuery |-> FALSE, RawQuery |-> <<>>, Fragment |-> <<>>]

Failed(e) == [url |-> NoURL, err |-> e]

\* A faulty setPath, which stores the path as written: C10 fails of it
SetPathTo_Raw(u, p, d) ==
    IF d.err # NoErr THEN Failed(d.err)
    ELSE [url |-> [u EXCEPT !.Path = p, !.RawPath = <<>>], err |-> NoErr]

\* the end of URL.setPath(p), d the unescaped path
SetPathTo(u, p, d) ==
    IF d.err # NoErr THEN Failed(d.err)
    ELSE [url |-> [u EXCEPT !.Path = d.val,
                            !.RawPath = IF Escape(d.val, "path") = p THEN <<>> ELSE p],
          err |-> NoErr]

\* URL.setPath(p): Path is the unescaped path, RawPath the original when
\* it is not the default encoding of Path
SetPath(u, p) == SetPathTo(u, p, Unescape(p, "path"))

\* parse: the authority a and the path after it are stored in u
SetAuthority(u, a, path) ==
    IF a.err # NoErr THEN Failed(a.err)
    ELSE SetPath([u EXCEPT !.User = a.user, !.Host = a.host], path)

\* parse: rest, after "//", is an authority and a path
ParseWithAuthority(u, a0) ==
    LET i == IndexOf(a0, "/")
    IN  SetAuthority(u, ParseAuthority(IF i = 0 THEN a0 ELSE SubSeq(a0, 1, i - 1)),
                     IF i = 0 THEN <<>> ELSE Drop(a0, i - 1))

\* parse: what follows the scheme and precedes the query
ParseRest(scheme, rest, u) ==
    IF ~HasPrefix(rest, <<"/">>) /\ scheme # <<>>
    THEN [url |-> [u EXCEPT !.Opaque = rest], err |-> NoErr]
    ELSE IF ~HasPrefix(rest, <<"/">>) /\ IndexOf(Cut(rest, "/").before, ":") # 0
    THEN Failed("first path segment in URL cannot contain colon")
    ELSE IF HasPrefix(rest, <<"/", "/">>)
            /\ (scheme # <<>> \/ ~HasPrefix(rest, <<"/", "/", "/">>))
    THEN ParseWithAuthority(u, Drop(rest, 2))
    ELSE SetPath(u, rest)

\* parse: rest ends in a lone "?"
ForceQuery(rest) == rest # <<>> /\ rest[Len(rest)] = "?" /\ Count(rest, "?") = 1

\* parse: the scheme g is split off, the query is cut from the rest
ParseAfterScheme(g) ==
    IF g.err # NoErr THEN Failed(g.err)
    ELSE ParseRest(g.scheme,
                   IF ForceQuery(g.rest) THEN SubSeq(g.rest, 1, Len(g.rest) - 1)
                   ELSE Cut(g.rest, "?").before,
                   [NoURL EXCEPT !.Scheme = ToLower(g.scheme),
                                 !.ForceQuery = ForceQuery(g.rest),
                                 !.RawQuery = IF ForceQuery(g.rest) THEN <<>>
                                              ELSE Cut(g.rest, "?").after])

\* parse(rawURL, viaRequest = false), rawURL without its fragment
ParseNoFragment(rawURL) ==
    IF rawURL = <<"*">> THEN [url |-> [NoURL EXCEPT !.Path = <<"*">>], err |-> NoErr]
    ELSE ParseAfterScheme(GetScheme(rawURL))

\* URL.setFragment(f), f the unescaped fragment
SetFragment(u, f) ==
    IF f.err # NoErr THEN Failed(f.err)
    ELSE [url |-> [u EXCEPT !.Fragment = f.val], err |-> NoErr]

\* Parse: the fragment is added to the parsed rest r
AddFragment(r, frag) ==
    IF r.err # NoErr \/ frag = <<>> THEN r
    ELSE SetFragment(r.url, Unescape(frag, "fragment"))

\* url.Parse(rawURL): [url, err]
Parse(rawURL) ==
    AddFragment(ParseNoFragment(Cut(rawURL, "#").before), Cut(rawURL, "#").after)

\* URL.Port(): the digits after the last colon of Host
Port(u) ==
    LET i == LastIndexOf(u.Host, ":")
    IN  IF i # 0 /\ ValidOptionalPort(Drop(u.Host, i - 1)) THEN Drop(u.Host, i) ELSE <<>>

\* Userinfo.String(), "" for a nil user
UserString(user) ==
    IF ~user.set THEN <<>>
    ELSE Escape(user.username, "userPassword")
         \o (IF user.passwordSet THEN <<":">> \o Escape(user.password, "userPassword")
             ELSE <<>>)

\* m[key] = append(m[key], value), m a sequence of <<key, values>>
AddValue(m, key, value) ==
    IF HasKey(m, key)
    THEN [i \in 1..Len(m) |-> IF m[i][1] = key THEN <<key, Append(m[i][2], value)>> ELSE m[i]]
    ELSE Append(m, <<key, <<value>>>>)

\* parseQuery(m, query): pairs that do not decode are skipped
RECURSIVE ParseQuery(_, _)
ParseQuery(m, query) ==
    IF query = <<>> THEN m
    ELSE LET c  == Cut(query, "&")
             kv == Cut(c.before, "=")
             k  == Unescape(kv.before, "queryComponent")
             v  == Unescape(kv.after, "queryComponent")
         IN  IF IndexOf(c.before, ";") # 0 \/ c.before = <<>>
                \/ k.err # NoErr \/ v.err # NoErr
             THEN ParseQuery(m, c.after)
             ELSE ParseQuery(AddValue(m, k.val, v.val), c.after)

\* URL.Query(): the error of the parse is dropped
Query(u) == ParseQuery(<<>>, u.RawQuery)

\* a < b in byte order
RECURSIVE Less(_, _)
Less(a, b) ==
    IF b = <<>> THEN FALSE
    ELSE IF a = <<>> THEN TRUE
    ELSE IF Head(a) = Head(b) THEN Less(Tail(a), Tail(b))
    ELSE Code(Head(a)) < Code(Head(b))

\* the entries of m by ascending key, as fmt prints a map
RECURSIVE SortedByKey(_)
SortedByKey(m) ==
    IF m = <<>> THEN <<>>
    ELSE LET i == CHOOSE i \in 1..Len(m) : \A j \in 1..Len(m) : j = i \/ Less(m[i][1], m[j][1])
         IN  <<m[i]>> \o SortedByKey(SubSeq(m, 1, i - 1) \o Drop(m, i))

RECURSIVE JoinSpaced(_)
JoinSpaced(items) ==
    IF items = <<>> THEN <<>>
    ELSE items[1] \o (IF Len(items) > 1 THEN <<" ">> \o JoinSpaced(Tail(items)) ELSE <<>>)

\* the default format of url.Values: map[k:[v v] k:[v]]
FormatValues(m) ==
    LET s == SortedByKey(m)
    IN  <<"m", "a", "p", "[">>
        \o JoinSpaced([i \in 1..Len(s) |-> s[i][1] \o <<":", "[">> \o JoinSpaced(s[i][2]) \o <<"]">>])
        \o <<"]">>

----------------------------------------------------------------------------
(* The url program: url.Parse(myurl) and the prints of its parts *)

WelcomeText ==
    <<"W","e","l","c","o","m","e"," ","t","o"," ","u","r","l","s"," ","i","n"," ","G",
      "o","l","a","n","g">>

\* const myurl, by its parts
MyHost == <<"w","w","w",".","f","i","v","e","r","r",".","c","o","m">>

MyPath ==
    <<"/","u","t","_","w","o","r","k","s","/","d","e","v","e","l","o","p","-","a","-",
      "g","a","m","e","-","p","r","o","t","o","t","y","p","e","-","i","n","-","u","n",
      "r","e","a","l","-","e","n","g","i","n","e","-","u","s","i","n","g","-","b","l",
      "u","e","p","r","i","n","t","s","-","a","n","d","-","c","p","p">>

MyQuery ==
    <<"c","o","n","t","e","x","t","_","r","e","f","e","r","r","e","r","=","t","a","i",
      "l","o","r","e","d","_","h","o","m","e","p","a","g","e","_","p","e","r","s","e",
      "u","s","&","s","o","u","r","c","e","=","r","e","c","e","n","t","l","y","_","v",
      "i","e","w","e","d","_","g","i","g","s","&","r","e","f","_","c","t","x","_","i",
      "d","=","8","1","f","d","c","4","4","f","c","e","1","5","4","9","e","3","b","a",
      "5","5","d","f","b","b","c","e","e","8","8","d","3","f","&","c","o","n","t","e",
      "x","t","=","r","e","c","o","m","m","e","n","d","a","t","i","o","n","&","p","c",
      "k","g","_","i","d","=","1","&","p","o","s","=","1","&","c","o","n","t","e","x",
      "t","_","a","l","g","=","r","e","c","e","n","t","l","y","_","v","i","e","w","e",
      "d","&","i","m","p","_","i","d","=","9","4","9","3","4","3","1","1","-","0","6",
      "c","c","-","4","d","3","5","-","b","9","f","6","-","9","7","4","3","6","0","f",
      "9","7","7","3","e">>

SchemeHttps == <<"h","t","t","p","s">>

HostExample == <<"h","o","s","t",".","e","x","a","m","p","l","e">>

PathPlain == <<"/","p","a","t","h">>

PathEscaped == <<"/","a","%","2","0","b">>

QueryRepeated == <<"x","=","1","&","x","=","2">>

UserPassword == <<"u",":","p">>

\* A URL by its parts: scheme://[user@]host[:port]path[?query]
Part(present, text) == [present |-> present, text |-> text]

Absent == Part(FALSE, <<>>)

Build(p) ==
    p.scheme \o <<":", "/", "/">>
    \o (IF p.user.present THEN p.user.text \o <<"@">> ELSE <<>>)
    \o p.host
    \o (IF p.port.present THEN <<":">> \o p.port.text ELSE <<>>)
    \o p.path
    \o (IF p.query.present THEN <<"?">> \o p.query.text ELSE <<>>)

MyUrlParts == [scheme |-> SchemeHttps, user |-> Absent, host |-> MyHost, port |-> Absent,
               path |-> MyPath, query |-> Part(TRUE, MyQuery)]

\* const myurl
MyUrl == Build(MyUrlParts)

ExampleParts == [scheme |-> SchemeHttps, user |-> Absent, host |-> HostExample,
                 port |-> Absent, path |-> PathPlain, query |-> Part(TRUE, QueryRepeated)]

\* the values given to myurl: the program's constant and URLs of every shape
UrlParts ==
    {MyUrlParts}
    \cup [scheme : {SchemeHttps, <<"H","T","T","P">>},
          user   : {Absent, Part(TRUE, <<"u">>), Part(TRUE, UserPassword)},
          host   : {HostExample, <<"h","%","4","1">>},
          port   : {Absent, Part(TRUE, <<"8","0","8","0">>), Part(TRUE, <<>>)},
          path   : {<<>>, PathPlain, PathEscaped, <<"/","p","%","z","z">>},
          query  : {Absent, Part(TRUE, <<>>), Part(TRUE, QueryRepeated),
                    Part(TRUE, <<"a","=","%","z","z","&","b","=","2">>)}]

----------------------------------------------------------------------------
(* State *)

VARIABLES
    prog,          \* the program this run executes
    expressMajor,  \* major version of the installed express package
    portBusy,      \* another process holds PORT
    srv,           \* the server process: off, binding, listening, crashed, exited
    console,       \* the server's console: <<[stream, text], ...>>
    inflight,      \* requests accepted by the server: {[from, req, stage, res]}
    cpc,           \* the Go program's position
    dial,          \* what the client's connection reached
    resp,          \* response: the value http.Get returned
    err,           \* err: the error of the last call that assigned it
    data,          \* the bytes ReadAll returned
    readErr,       \* the error ReadAll returned
    deferred,      \* the deferred calls of the running function
    closed,        \* number of Close calls on the response body
    readClosed,    \* a read was made on a closed body
    stdout,        \* the Go program's standard output, a sequence of lines
    exit,          \* running, ok, panic
    panicVal,      \* the value the program panicked with
    parts,         \* the parts myurl is written from
    rawurl,        \* myurl, the text given to url.Parse
    result         \* result: the URL url.Parse returned

srvVars == <<expressMajor, portBusy, srv, console>>

goVars == <<cpc, dial, resp, err, data, readErr, deferred, closed, readClosed,
            stdout, exit, panicVal>>

urlVars == <<parts, rawurl, result>>

vars == <<prog, srvVars, inflight, goVars, urlVars>>

Programs == {"server", "webserver", "webrequest", "urls", "errors"}

\* Requests handled at the same time
MaxInflight == 2

Init ==
    /\ prog \in Programs
    /\ expressMajor \in (IF prog \in {"server", "webserver"} THEN {4, 5} ELSE {4})
    /\ portBusy \in (IF prog \in {"server", "webserver"} THEN BOOLEAN ELSE {FALSE})
    /\ srv = "off"
    /\ console = <<>>
    /\ inflight = {}
    /\ cpc = IF prog = "server" THEN "none" ELSE "main"
    /\ dial = "none"
    /\ resp = NoResp
    /\ err = NoErr
    /\ data = <<>>
    /\ readErr = NoErr
    /\ deferred = <<>>
    /\ closed = 0
    /\ readClosed = FALSE
    /\ stdout = <<>>
    /\ exit = IF prog = "server" THEN "none" ELSE "running"
    /\ panicVal = NoErr
    /\ parts \in (IF prog = "urls" THEN UrlParts ELSE {MyUrlParts})
    /\ rawurl = Build(parts)
    /\ result = NoURL

----------------------------------------------------------------------------
(* server/index.js *)

\* node index.js: lines 1-17 register the middleware and the routes, then
\* app.listen(PORT, callback) asks for the port
ServerStart ==
    /\ prog \in {"server", "webserver"}
    /\ srv = "off"
    /\ srv' = "binding"
    /\ UNCHANGED <<prog, expressMajor, portBusy, console, inflight, goVars, urlVars>>

\* the listen succeeded: the callback logs the startup line
BindOk ==
    /\ srv = "binding"
    /\ ~portBusy
    /\ srv' = "listening"
    /\ console' = Append(console, [stream |-> "stdout", text |-> RunningText \o IntChars(PORT)])
    /\ UNCHANGED <<prog, expressMajor, portBusy, inflight, goVars, urlVars>>

\* the listen failed. Express 4: the server's error event has no listener,
\* the exception is uncaught and node prints it and exits. Express 5: the
\* error is handed to the listen callback, which ignores its argument and
\* logs the startup line; nothing keeps the process alive and it exits.
BindFail ==
    /\ srv = "binding"
    /\ portBusy
    /\ IF expressMajor = 4
       THEN /\ srv' = "crashed"
            /\ console' = Append(console, [stream |-> "stderr",
                                           text |-> AddrInUseText \o IntChars(PORT)])
       ELSE /\ srv' = "exited"
            /\ console' = Append(console, [stream |-> "stdout",
                                           text |-> RunningText \o IntChars(PORT)])
    /\ UNCHANGED <<prog, expressMajor, portBusy, inflight, goVars, urlVars>>

\* a request arrives from some client
Receive(req) ==
    /\ prog = "server"
    /\ srv = "listening"
    /\ Cardinality(inflight) < MaxInflight
    /\ inflight' = inflight \cup {[from |-> "ext", req |-> req, stage |-> "reading", res |-> NoRes]}
    /\ UNCHANGED <<prog, srvVars, urlVars, goVars>>

\* A faulty server, whose handlers read the request from a variable that
\* the requests in flight share: C13 fails of it
Process_Shared(c) ==
    /\ srv = "listening"
    /\ c.stage = "reading"
    /\ LET others == inflight \ {c}
           seen   == IF others = {} THEN c.req ELSE (CHOOSE d \in others : TRUE).req
       IN  inflight' = others \cup {[c EXCEPT !.stage = "done",
                                              !.res = Handle(seen, expressMajor)]}
    /\ UNCHANGED <<prog, srvVars, urlVars, goVars>>

\* the request's body has arrived: middleware, router and handler run to
\* completion and the response is written
Process(c) ==
    /\ srv = "listening"
    /\ c.stage = "reading"
    /\ inflight' = (inflight \ {c})
                   \cup {[c EXCEPT !.stage = "done", !.res = Handle(c.req, expressMajor)]}
    /\ UNCHANGED <<prog, srvVars, urlVars, goVars>>

\* the response has been delivered and the exchange is over
Finish(c) ==
    /\ c.stage = "done"
    /\ c.from = "ext"
    /\ inflight' = inflight \ {c}
    /\ UNCHANGED <<prog, srvVars, urlVars, goVars>>

----------------------------------------------------------------------------
(* The Go runtime *)

\* panic(v): the deferred calls of the function run, then the program dies
\* printing v. Every deferred call of these programs is response.Body.Close
Panic(v) ==
    /\ exit' = "panic"
    /\ panicVal' = v
    /\ closed' = closed + Len(deferred)
    /\ deferred' = <<>>
    /\ cpc' = "dead"

\* return from the function that ends the program: its deferred calls run
Return ==
    /\ exit' = "ok"
    /\ closed' = closed + Len(deferred)
    /\ deferred' = <<>>
    /\ cpc' = "done"

----------------------------------------------------------------------------
(* webserver/main.go *)

\* main: fmt.Println("Local host"); myGetrequest()
LocalMain ==
    /\ prog = "webserver" /\ cpc = "main"
    /\ stdout' = Append(stdout, LocalBanner)
    /\ cpc' = "get"
    /\ UNCHANGED <<prog, srvVars, urlVars, inflight, dial, resp, err, data, readErr, deferred,
                   closed, readClosed, exit, panicVal>>

\* http.Get(myurl), the connection: to index.js when it listens on the
\* port of myurl, to whoever else holds the port, or refused
LocalDial ==
    /\ prog = "webserver" /\ cpc = "get"
    /\ IF srv = "listening" /\ LocalPort = PORT
       THEN /\ dial' = "express"
            /\ inflight' = inflight \cup {[from |-> "client", req |-> LocalRequest,
                                           stage |-> "reading", res |-> NoRes]}
            /\ cpc' = "await"
            /\ UNCHANGED err
       ELSE IF portBusy /\ LocalPort = PORT
       THEN /\ dial' = "other"
            /\ cpc' = "await"
            /\ UNCHANGED <<inflight, err>>
       ELSE /\ dial' = "refused"
            /\ err' = ConnRefused
            /\ cpc' = "check"
            /\ UNCHANGED inflight
    /\ UNCHANGED <<prog, srvVars, urlVars, resp, data, readErr, deferred, closed, readClosed,
                   stdout, exit, panicVal>>

\* http.Get(myurl), the response of index.js
LocalResponse(c) ==
    /\ prog = "webserver" /\ cpc = "await" /\ dial = "express"
    /\ c.from = "client" /\ c.stage = "done"
    /\ resp' = ClientResponse(c.res)
    /\ inflight' = inflight \ {c}
    /\ cpc' = "check"
    /\ UNCHANGED <<prog, srvVars, urlVars, dial, err, data, readErr, deferred, closed, readClosed,
                   stdout, exit, panicVal>>

\* http.Get(myurl) against another server: a response or a failure
LocalOther(r, e) ==
    /\ prog = "webserver" /\ cpc = "await" /\ dial = "other"
    /\ resp' = IF e = NoErr THEN r ELSE NoResp
    /\ err' = e
    /\ cpc' = "check"
    /\ UNCHANGED <<prog, srvVars, urlVars, inflight, dial, data, readErr, deferred, closed,
                   readClosed, stdout, exit, panicVal>>

\* A faulty check, which registers the close before it tests the error, so
\* that the panic runs it on the missing response: C18 fails of it
LocalCheck_DeferFirst ==
    /\ prog = "webserver" /\ cpc = "check"
    /\ IF err # NoErr
       THEN /\ exit' = "panic"
            /\ panicVal' = err
            /\ closed' = closed + Len(deferred) + 1
            /\ deferred' = <<>>
            /\ cpc' = "dead"
       ELSE /\ deferred' = Append(deferred, "Body.Close")
            /\ cpc' = "status"
            /\ UNCHANGED <<closed, exit, panicVal>>
    /\ UNCHANGED <<prog, srvVars, urlVars, inflight, dial, resp, err, data, readErr, readClosed,
                   stdout>>

\* A faulty check, which tries the request again after a failure: C8 fails
\* of it
LocalCheck_Retry ==
    /\ prog = "webserver" /\ cpc = "check"
    /\ IF err # NoErr
       THEN /\ cpc' = "get"
            /\ UNCHANGED <<deferred>>
       ELSE /\ deferred' = Append(deferred, "Body.Close")
            /\ cpc' = "status"
    /\ UNCHANGED <<prog, srvVars, urlVars, inflight, dial, resp, err, data, readErr, readClosed,
                   stdout, closed, exit, panicVal>>

\* if err != nil { panic(err) }; defer response.Body.Close()
LocalCheck ==
    /\ prog = "webserver" /\ cpc = "check"
    /\ IF err # NoErr
       THEN /\ Panic(err)
            /\ UNCHANGED <<resp>>
       ELSE /\ deferred' = Append(deferred, "Body.Close")
            /\ cpc' = "status"
            /\ UNCHANGED <<closed, exit, panicVal, resp>>
    /\ UNCHANGED <<prog, srvVars, urlVars, inflight, dial, err, data, readErr, readClosed, stdout>>

\* fmt.Println("Status code: ", response.StatusCode)
LocalPrintStatus ==
    /\ prog = "webserver" /\ cpc = "status"
    /\ stdout' = Append(stdout, Println2(StatusLabel, IntChars(resp.status)))
    /\ cpc' = "length"
    /\ UNCHANGED <<prog, srvVars, urlVars, inflight, dial, resp, err, data, readErr, deferred,
                   closed, readClosed, exit, panicVal>>

\* fmt.Println("COntent Length: ", response.ContentLength)
LocalPrintLength ==
    /\ prog = "webserver" /\ cpc = "length"
    /\ stdout' = Append(stdout, Println2(LengthLabel, IntChars(resp.contentLength)))
    /\ cpc' = "read"
    /\ UNCHANGED <<prog, srvVars, urlVars, inflight, dial, resp, err, data, readErr, deferred,
                   closed, readClosed, exit, panicVal>>

\* data, _ := ioutil.ReadAll((response.Body)): the error is discarded
LocalReadAll(o) ==
    /\ prog = "webserver" /\ cpc = "read"
    /\ data' = ReadAll(resp.body, o.n, o.err).data
    /\ readErr' = ReadAll(resp.body, o.n, o.err).err
    /\ readClosed' = (readClosed \/ closed > 0)
    /\ cpc' = "print"
    /\ UNCHANGED <<prog, srvVars, urlVars, inflight, dial, resp, err, deferred, closed, stdout,
                   exit, panicVal>>

\* fmt.Println(string(data)); the function returns
LocalPrintData ==
    /\ prog = "webserver" /\ cpc = "print"
    /\ stdout' = Append(stdout, data)
    /\ cpc' = "return"
    /\ UNCHANGED <<prog, srvVars, urlVars, inflight, dial, resp, err, data, readErr, deferred,
                   closed, readClosed, exit, panicVal>>

LocalReturn ==
    /\ prog = "webserver" /\ cpc = "return"
    /\ Return
    /\ UNCHANGED <<prog, srvVars, urlVars, inflight, dial, resp, err, data, readErr, readClosed,
                   stdout, panicVal>>

----------------------------------------------------------------------------
(* webrequest/main.go *)

\* fmt.Println("WebRequest Practice")
WebMain ==
    /\ prog = "webrequest" /\ cpc = "main"
    /\ stdout' = Append(stdout, WebBanner)
    /\ cpc' = "get"
    /\ UNCHANGED <<prog, srvVars, urlVars, inflight, dial, resp, err, data, readErr, deferred,
                   closed, readClosed, exit, panicVal>>

\* response, err := http.Get("https://github.com/mUsman2003")
WebGet(r, e) ==
    /\ prog = "webrequest" /\ cpc = "get"
    /\ dial' = IF e = NoErr THEN "other" ELSE "failed"
    /\ resp' = IF e = NoErr THEN r ELSE NoResp
    /\ err' = e
    /\ cpc' = "check"
    /\ UNCHANGED <<prog, srvVars, urlVars, inflight, data, readErr, deferred, closed, readClosed,
                   stdout, exit, panicVal>>

\* A faulty check, which sends the request again after a failure: C14 fails
\* of it
WebCheck_Retry ==
    /\ prog = "webrequest" /\ cpc = "check"
    /\ cpc' = IF err # NoErr THEN "get" ELSE "read"
    /\ UNCHANGED <<prog, srvVars, urlVars, inflight, dial, resp, err, data, readErr, readClosed,
                   stdout, deferred, closed, exit, panicVal>>

\* A faulty check, which panics with a message of its own instead of the
\* error: C5 fails of it
WebCheck_OwnMessage ==
    /\ prog = "webrequest" /\ cpc = "check"
    /\ IF err # NoErr
       THEN Panic("request failed")
       ELSE /\ cpc' = "read"
            /\ UNCHANGED <<deferred, closed, exit, panicVal>>
    /\ UNCHANGED <<prog, srvVars, urlVars, inflight, dial, resp, err, data, readErr, readClosed, stdout>>

\* if err != nil { panic(err) }
WebCheck ==
    /\ prog = "webrequest" /\ cpc = "check"
    /\ IF err # NoErr
       THEN Panic(err)
       ELSE /\ cpc' = "read"
            /\ UNCHANGED <<deferred, closed, exit, panicVal>>
    /\ UNCHANGED <<prog, srvVars, urlVars, inflight, dial, resp, err, data, readErr, readClosed, stdout>>

\* databyte, err := ioutil.ReadAll(response.Body): err is assigned and
\* never looked at
WebReadAll(o) ==
    /\ prog = "webrequest" /\ cpc = "read"
    /\ data' = ReadAll(resp.body, o.n, o.err).data
    /\ readErr' = ReadAll(resp.body, o.n, o.err).err
    /\ err' = ReadAll(resp.body, o.n, o.err).err
    /\ readClosed' = (readClosed \/ closed > 0)
    /\ cpc' = "print"
    /\ UNCHANGED <<prog, srvVars, urlVars, inflight, dial, resp, deferred, closed, stdout, exit, panicVal>>

\* A faulty print, fmt.Printf in place of fmt.Println: the directive is
\* replaced by the body. C16 fails of it
WebPrintData_Printf ==
    /\ prog = "webrequest" /\ cpc = "print"
    /\ stdout' = Append(stdout, <<"D", "a", "t", "a">> \o data)
    /\ cpc' = "defer"
    /\ UNCHANGED <<prog, srvVars, urlVars, inflight, dial, resp, err, data, readErr, deferred,
                   closed, readClosed, exit, panicVal>>

\* fmt.Println("Data%v", string(databyte))
WebPrintData ==
    /\ prog = "webrequest" /\ cpc = "print"
    /\ stdout' = Append(stdout, Println2(DataLabel, data))
    /\ cpc' = "defer"
    /\ UNCHANGED <<prog, srvVars, urlVars, inflight, dial, resp, err, data, readErr, deferred,
                   closed, readClosed, exit, panicVal>>

\* A faulty end of main, which never registers the close: C6 fails of it
WebDefer_Missing ==
    /\ prog = "webrequest" /\ cpc = "defer"
    /\ cpc' = "return"
    /\ UNCHANGED <<prog, srvVars, urlVars, inflight, dial, resp, err, data, readErr, closed,
                   readClosed, stdout, exit, panicVal, deferred>>

\* defer response.Body.Close()
WebDefer ==
    /\ prog = "webrequest" /\ cpc = "defer"
    /\ deferred' = Append(deferred, "Body.Close")
    /\ cpc' = "return"
    /\ UNCHANGED <<prog, srvVars, urlVars, inflight, dial, resp, err, data, readErr, closed,
                   readClosed, stdout, exit, panicVal>>

WebReturn ==
    /\ prog = "webrequest" /\ cpc = "return"
    /\ Return
    /\ UNCHANGED <<prog, srvVars, urlVars, inflight, dial, resp, err, data, readErr, readClosed,
                   stdout, panicVal>>

----------------------------------------------------------------------------
(* The url program *)

\* fmt.Println("Welcome to urls in Golang")
UrlMain ==
    /\ prog = "urls" /\ cpc = "main"
    /\ stdout' = Append(stdout, WelcomeText)
    /\ cpc' = "parse"
    /\ UNCHANGED <<prog, srvVars, urlVars, inflight, dial, resp, err, data, readErr,
                   deferred, closed, readClosed, exit, panicVal>>

\* result, err := url.Parse(myurl)
UrlParse ==
    /\ prog = "urls" /\ cpc = "parse"
    /\ \E r \in {Parse(rawurl)} :
          /\ result' = r.url
          /\ err' = r.err
    /\ cpc' = "check"
    /\ UNCHANGED <<prog, srvVars, parts, rawurl, inflight, dial, resp, data, readErr,
                   deferred, closed, readClosed, stdout, exit, panicVal>>

\* if err != nil { panic(err) }
UrlCheck ==
    /\ prog = "urls" /\ cpc = "check"
    /\ IF err # NoErr
       THEN Panic(err)
       ELSE /\ cpc' = "Scheme"
            /\ UNCHANGED <<deferred, closed, exit, panicVal>>
    /\ UNCHANGED <<prog, srvVars, urlVars, inflight, dial, resp, err, data, readErr,
                   readClosed, stdout>>

\* fmt.Println(line) at position at, going on to position next
UrlPrint(at, line, next) ==
    /\ prog = "urls" /\ cpc = at
    /\ stdout' = Append(stdout, line)
    /\ cpc' = next
    /\ UNCHANGED <<prog, srvVars, urlVars, inflight, dial, resp, err, data, readErr,
                   deferred, closed, readClosed, exit, panicVal>>

\* fmt.Println(result.Scheme)
UrlPrintScheme == UrlPrint("Scheme", result.Scheme, "Host")

\* fmt.Println(result.Host)
UrlPrintHost == UrlPrint("Host", result.Host, "Path")

\* fmt.Println(result.Path)
UrlPrintPath == UrlPrint("Path", result.Path, "User")

\* fmt.Println(result.User)
UrlPrintUser == UrlPrint("User", UserString(result.User), "RawQuery")

\* fmt.Println(result.RawQuery)
UrlPrintRawQuery == UrlPrint("RawQuery", result.RawQuery, "Port")

\* fmt.Println(result.Port())
UrlPrintPort == UrlPrint("Port", Port(result), "Query")

\* fmt.Println(result.Query())
UrlPrintQuery == UrlPrint("Query", FormatValues(Query(result)), "return")

UrlReturn ==
    /\ prog = "urls" /\ cpc = "return"
    /\ Return
    /\ UNCHANGED <<prog, srvVars, urlVars, inflight, dial, resp, err, data, readErr,
                   readClosed, stdout, panicVal>>

----------------------------------------------------------------------------
(* The error example *)

UnableText ==
    <<"u","n","a","b","l","e"," ","t","o"," ","d","o"," ","s","o","m","e","t","h","i","n","g">>

ErrorLabel == <<"E","r","r","o","r",":">>

SuccessText == <<"S","u","c","c","e","s","s">>

\* A faulty doSomething, which returns nil: C20 fails of it
DoSomething_Nil == NoErr

\* func doSomething() error { return errors.New("unable to do something") }
DoSomething == "unable to do something"

\* err.Error(): the text the error was made with
ErrorMessage(e) == IF e = "unable to do something" THEN UnableText ELSE <<>>

\* err := doSomething()
ErrCall ==
    /\ prog = "errors" /\ cpc = "main"
    /\ err' = DoSomething
    /\ cpc' = "check"
    /\ UNCHANGED <<prog, srvVars, urlVars, inflight, dial, resp, data, readErr, deferred,
                   closed, readClosed, stdout, exit, panicVal>>

\* if err != nil { fmt.Println("Error:", err) } else { fmt.Println("Success") }
ErrCheck ==
    /\ prog = "errors" /\ cpc = "check"
    /\ stdout' = Append(stdout, IF err # NoErr THEN Println2(ErrorLabel, ErrorMessage(err))
                                ELSE SuccessText)
    /\ cpc' = "return"
    /\ UNCHANGED <<prog, srvVars, urlVars, inflight, dial, resp, err, data, readErr, deferred,
                   closed, readClosed, exit, panicVal>>

ErrReturn ==
    /\ prog = "errors" /\ cpc = "return"
    /\ Return
    /\ UNCHANGED <<prog, srvVars, urlVars, inflight, dial, resp, err, data, readErr,
                   readClosed, stdout, panicVal>>

----------------------------------------------------------------------------

ServerNext ==
    \/ ServerStart
    \/ BindOk
    \/ BindFail
    \/ \E req \in Requests : Receive(req)
    \/ \E c \in inflight : Process(c)
    \/ \E c \in inflight : Finish(c)

LocalNext ==
    \/ LocalMain
    \/ LocalDial
    \/ \E c \in inflight : LocalResponse(c)
    \/ \E r \in OtherResponses, e \in {NoErr} \cup TransportErrors : LocalOther(r, e)
    \/ LocalCheck
    \/ LocalPrintStatus
    \/ LocalPrintLength
    \/ \E o \in ReadOutcomes(resp.body) : LocalReadAll(o)
    \/ LocalPrintData
    \/ LocalReturn

WebNext ==
    \/ WebMain
    \/ \E r \in OtherResponses, e \in {NoErr} \cup TransportErrors : WebGet(r, e)
    \/ WebCheck
    \/ \E o \in ReadOutcomes(resp.body) : WebReadAll(o)
    \/ WebPrintData
    \/ WebDefer
    \/ WebReturn

UrlNext ==
    \/ UrlMain
    \/ UrlParse
    \/ UrlCheck
    \/ UrlPrintScheme
    \/ UrlPrintHost
    \/ UrlPrintPath
    \/ UrlPrintUser
    \/ UrlPrintRawQuery
    \/ UrlPrintPort
    \/ UrlPrintQuery
    \/ UrlReturn

ErrNext ==
    \/ ErrCall
    \/ ErrCheck
    \/ ErrReturn

Next == ServerNext \/ LocalNext \/ WebNext \/ UrlNext \/ ErrNext

Spec == Init /\ [][Next]_vars

----------------------------------------------------------------------------
(* Properties of the server's responses *)

Done == {c \in inflight : c.stage = "done"}

\* The request carries no body that the JSON middleware refuses: it has no
\* body, or the body is not declared as JSON, or it is empty, or it is the
\* JSON text of an object or an array
BodyAccepted(req) ==
    \/ ~req.hasBody
    \/ req.ctype # "application/json"
    \/ req.body = <<>>
    \/ (JSONparse(req.body).ok /\ JSONparse(req.body).val.t \in {"obj", "arr"})

\* The request is conditional on the entity the route would send
Revalidates(req, text) == req.inm = ETag(text)

IsGetRoute(req) == req.method = "GET" /\ req.path = PathGet

IsPostRoute(req) == req.method = "POST" /\ req.path = PathPost

\* C1 as stated: every answered GET /get has status 200 and the body
\* "Hello from GET!".
C1_AsStated ==
    \A c \in Done : IsGetRoute(c.req) => c.res.status = 200 /\ c.res.body = HelloText

\* C1, amended: an answered GET /get whose body the JSON middleware does not
\* refuse and which does not revalidate the greeting has status 200 and the
\* body "Hello from GET!", whatever else the server is serving; a refused
\* body is answered 400 and a matching revalidation 304 with no body.
C1_GetAnswer ==
    \A c \in Done :
        IsGetRoute(c.req) =>
            IF ~BodyAccepted(c.req) THEN c.res.status = 400 /\ c.res.ran = "none"
            ELSE IF Revalidates(c.req, HelloText) THEN c.res.status = 304 /\ c.res.body = <<>>
            ELSE c.res.status = 200 /\ c.res.body = HelloText

\* a GET /get is answered while another, already answered, exchange is open
C1_Witness ==
    \E c \in Done, d \in Done :
        /\ c # d
        /\ IsGetRoute(c.req) /\ BodyAccepted(c.req) /\ ~Revalidates(c.req, HelloText)
        /\ c.res.status = 200

IsJsonObject(text) == JSONparse(text).ok /\ JSONparse(text).val.t = "obj"

\* the text the response carries after "Received data: "
Echoed(res) == Drop(res.body, Len(ReceivedPrefix))

\* C2 as stated: every answered POST /post whose body is the text of a JSON
\* object has status 200 and the body "Received data: " followed by the
\* re-serialisation of the parsed body.
C2_AsStated ==
    \A c \in Done :
        IsPostRoute(c.req) /\ c.req.hasBody /\ IsJsonObject(c.req.body) =>
            /\ c.res.status = 200
            /\ c.res.body = ReceivedPrefix \o JSONstringify(JSONparse(c.req.body).val)

\* C2, amended: every answered POST /post whose body is declared
\* application/json and is the text of a JSON object has status 200 and the
\* body "Received data: " followed by the re-serialisation of the parsed
\* body, and the echoed text parses to the same keys and values as the
\* request body.
C2_PostEcho ==
    \A c \in Done :
        /\ IsPostRoute(c.req) /\ c.req.hasBody /\ c.req.ctype = "application/json"
        /\ IsJsonObject(c.req.body)
        => /\ c.res.status = 200
           /\ HasPrefix(c.res.body, ReceivedPrefix)
           /\ Echoed(c.res) = JSONstringify(JSONparse(c.req.body).val)
           /\ JSONparse(Echoed(c.res)) = JSONparse(c.req.body)

\* an object whose text is not its own re-serialisation has been echoed
C2_Witness ==
    \E c \in Done :
        /\ IsPostRoute(c.req) /\ c.req.ctype = "application/json"
        /\ IsJsonObject(c.req.body)
        /\ c.res.status = 200
        /\ Echoed(c.res) # c.req.body

\* the path of a registered route, as the router compares paths
RoutePathOf(path) ==
    IF ToLower(path) \in {PathGet, PathGetSlash} THEN "get"
    ELSE IF ToLower(path) \in {PathPost, PathPost \o <<"/">>} THEN "post"
    ELSE "none"

\* C3 as stated: a request that is neither (GET, /get) nor (POST, /post)
\* runs no handler and is answered with the framework's not-found response.
C3_AsStated ==
    \A c \in Done :
        ~IsGetRoute(c.req) /\ ~IsPostRoute(c.req) =>
            c.res.ran = "none" /\ c.res = NotFound(c.req)

\* C3, amended: of the requests the JSON middleware does not refuse, the get
\* handler runs exactly for GET and HEAD on /get and the post handler exactly
\* for POST on /post, paths compared without regard to case and to one
\* trailing slash; every other request runs neither handler and is answered
\* 404 with the not-found text, except OPTIONS on a route's path, which is
\* answered 200 with the allowed methods. A refused body is answered 400 and
\* runs no handler.
C3_OnlyTwoRoutes ==
    \A c \in Done :
        LET r == c.req
            onGet  == RoutePathOf(r.path) = "get" /\ r.method \in {"GET", "HEAD"}
            onPost == RoutePathOf(r.path) = "post" /\ r.method = "POST"
        IN  IF ~BodyAccepted(r) THEN c.res.status = 400 /\ c.res.ran = "none"
            ELSE /\ c.res.ran = "get" <=> onGet
                 /\ c.res.ran = "post" <=> onPost
                 /\ ~onGet /\ ~onPost =>
                      IF r.method = "OPTIONS" /\ RoutePathOf(r.path) # "none"
                      THEN c.res.status = 200 /\ c.res.body \notin {HelloText}
                      ELSE /\ c.res.status = 404
                           /\ c.res.body = IF r.method = "HEAD" THEN <<>>
                                           ELSE CannotText \o MethodText(r.method)
                                                \o <<" ">> \o r.path

\* POST /get and a request to an unregistered path have both been answered 404
C3_Witness ==
    \E c \in Done, d \in Done :
        /\ c.req.method = "POST" /\ c.req.path = PathGet /\ c.res.status = 404
        /\ d.req.path = PathOther /\ d.res.status = 404 /\ d.res.ran = "none"

----------------------------------------------------------------------------
(* Properties of the server process *)

BindFailed == portBusy /\ srv \notin {"off", "binding"}

ErrorShown == \E i \in 1..Len(console) :
                  console[i].stream = "stderr" /\ HasPrefix(console[i].text, AddrInUseText)

\* C4: when the listen on PORT fails the process terminates with a
\* descriptive error; it never serves, never binds again and never takes
\* another port.
C4_AsStated ==
    BindFailed =>
        /\ srv = "crashed"
        /\ ErrorShown
        /\ inflight = {}

----------------------------------------------------------------------------
(* Properties of the Go clients *)

Clients == {"webserver", "webrequest"}

Banner == IF prog = "webserver" THEN LocalBanner ELSE WebBanner

\* http.Get has returned / has returned an error
GetReturned == prog \in Clients /\ cpc \notin {"main", "get", "await"}

GetFailed == GetReturned /\ resp = NoResp

\* C5: in both clients, when http.Get returns an error the program panics
\* with that same error, and nothing is printed after the failure: the
\* output is the banner alone.
C5_GetFailurePanics ==
    GetFailed =>
        /\ stdout = <<Banner>>
        /\ err \in TransportErrors
        /\ cpc # "check" => exit = "panic" /\ panicVal = err /\ cpc = "dead"

\* the github client has died of a name-resolution failure
C5_Witness ==
    /\ prog = "webrequest" /\ GetFailed
    /\ exit = "panic" /\ panicVal = "no such host"

\* C6: once a response has been obtained its body is closed exactly once by
\* the time the program has exited, whether or not the read failed, and no
\* read is made on a closed body.
C6_BodyClosedOnce ==
    /\ closed <= 1
    /\ ~readClosed
    /\ (prog \in Clients /\ exit # "running" /\ resp # NoResp) => closed = 1

\* the github client has exited after a read that failed, the body closed
C6_Witness ==
    /\ prog = "webrequest" /\ exit = "ok"
    /\ resp # NoResp /\ readErr # NoErr
    /\ closed = 1

\* C7: every failed call aborts the process at once with the error shown:
\* a failed GET, a failed body read, a failed URL parse and a failed bind all
\* end the program with that error, and nothing runs after the failure.
C7_AsStated ==
    /\ (prog \in Clients /\ readErr # NoErr) => exit = "panic" /\ panicVal = readErr
    /\ (GetFailed /\ cpc # "check") => exit = "panic" /\ panicVal = err
    /\ (prog = "urls" /\ err # NoErr /\ cpc # "check") => exit = "panic" /\ panicVal = err
    /\ BindFailed => srv = "crashed" /\ ErrorShown

\* C9: after a successful GET the body the client prints is the whole body
\* of the response, and the localhost client prints the status code and the
\* content length, in this order, before it.
BodyPrinted == prog \in Clients /\ resp # NoResp /\ cpc \in {"defer", "return", "done"}

PrintedBody == IF prog = "webserver" THEN stdout[Len(stdout)]
               ELSE Drop(stdout[Len(stdout)], Len(DataLabel) + 1)

C9_AsStated ==
    BodyPrinted =>
        /\ PrintedBody = resp.body
        /\ prog = "webserver" =>
             stdout = <<LocalBanner,
                        Println2(StatusLabel, IntChars(resp.status)),
                        Println2(LengthLabel, IntChars(resp.contentLength)),
                        resp.body>>

----------------------------------------------------------------------------
(* Scheduling: the Go program's own statements always run to the next one;  *)
(* the answer of a peer over the network is not in the program's hands.     *)

LocalSteps ==
    \/ LocalMain
    \/ LocalDial
    \/ LocalCheck
    \/ LocalPrintStatus
    \/ LocalPrintLength
    \/ LocalPrintData
    \/ LocalReturn

FairSpec == Spec /\ WF_vars(LocalSteps)

NothingListens == srv # "listening" /\ ~portBusy

\* C8: run with nothing listening on localhost:3000, the localhost client
\* does not hang: its connection is refused and it ends in the panic that
\* carries the refusal, having printed the banner and nothing else.
C8_RefusedTerminates ==
    /\ [][(prog = "webserver" /\ cpc = "get" /\ NothingListens /\ cpc' # cpc)
            => dial' = "refused" /\ err' = ConnRefused]_vars
    /\ [](prog = "webserver" /\ dial = "refused" =>
            /\ stdout = <<LocalBanner>>
            /\ resp = NoResp
            /\ cpc \in {"check", "dead"}
            /\ cpc = "dead" => exit = "panic" /\ panicVal = ConnRefused)
    /\ (prog = "webserver" /\ cpc \in {"main", "get"} /\ NothingListens)
          ~> ((exit = "panic" /\ panicVal = ConnRefused) \/ ~NothingListens)

\* the localhost client has died of the refused connection while the server
\* was never started
C8_Witness ==
    /\ prog = "webserver" /\ srv = "off" /\ ~portBusy
    /\ dial = "refused"
    /\ exit = "panic" /\ panicVal = ConnRefused

----------------------------------------------------------------------------
(* Properties of the url program *)

\* the url program has printed every line and returned
UrlPrinted == prog = "urls" /\ exit = "ok"

\* the host of the input with its port, as the input writes them
HostPort(p) == p.host \o (IF p.port.present THEN <<":">> \o p.port.text ELSE <<>>)

RECURSIVE QueryPairs(_)
QueryPairs(q) ==
    IF q = <<>> THEN <<>>
    ELSE LET c == Cut(q, "&")
         IN  (IF c.before = <<>> THEN <<>>
              ELSE <<<<Cut(c.before, "=").before, Cut(c.before, "=").after>>>>)
             \o QueryPairs(c.after)

\* the values the pairs give to key k, in their order
RECURSIVE ValuesOf(_, _)
ValuesOf(pairs, k) ==
    IF pairs = <<>> THEN <<>>
    ELSE (IF pairs[1][1] = k THEN <<pairs[1][2]>> ELSE <<>>) \o ValuesOf(Tail(pairs), k)

\* C11: the query mapping the url program prints has each key of the query
\* string exactly once, and the value of a key is the sequence of all the
\* values the query string gives it, in their order of appearance.
C11_AsStated ==
    UrlPrinted =>
        LET m     == Query(result)
            pairs == QueryPairs(parts.query.text)
        IN  /\ stdout[8] = FormatValues(m)
            /\ \A i, j \in 1..Len(m) : m[i][1] = m[j][1] => i = j
            /\ \A i \in 1..Len(pairs) :
                  \E j \in 1..Len(m) :
                      m[j][1] = pairs[i][1] /\ m[j][2] = ValuesOf(pairs, pairs[i][1])
            /\ \A j \in 1..Len(m) : \E i \in 1..Len(pairs) : pairs[i][1] = m[j][1]

\* the text has a "%" that is not followed by two hexadecimal digits
HasBadEscape(s) ==
    \E i \in 1..Len(s) :
        s[i] = "%" /\ (i + 2 > Len(s) \/ ~IsHex(s[i + 1]) \/ ~IsHex(s[i + 2]))

\* C12: a URL string with an invalid percent-escape anywhere in it (path,
\* host or query string) makes the parse fail and the program panic: nothing
\* is printed after the welcome line, neither a component nor a query mapping.
C12_AsStated ==
    (prog = "urls" /\ HasBadEscape(rawurl) /\ cpc \notin {"main", "parse", "check"}) =>
        /\ exit = "panic"
        /\ err # NoErr /\ panicVal = err
        /\ stdout = <<WelcomeText>>

----------------------------------------------------------------------------
(* Properties of the server under concurrent requests *)

----------------------------------------------------------------------------
(* Properties of the clients' requests *)

\* the requests of the client that the server holds
ClientRequests == {c \in inflight : c.from = "client"}

\* a step of a client: the GET is issued from the one position that holds it,
\* when no connection was tried before, and never again afterwards
OneGetStep ==
    prog \in Clients =>
        /\ (cpc = "get" /\ cpc' # "get") => (dial = "none" /\ dial' # "none")
        /\ cpc \notin {"main", "get"} => (cpc' \notin {"main", "get"} /\ dial' = dial)
        /\ Cardinality(ClientRequests') > Cardinality(ClientRequests) => cpc = "get"

C15_AsStated ==
    /\ (prog = "webserver" /\ dial = "express" /\ resp # NoResp) =>
           resp = [status |-> 200, contentLength |-> Len(HelloText), body |-> HelloText]
    /\ (prog = "webserver" /\ dial = "express" /\ exit # "running") =>
           /\ exit = "ok"
           /\ stdout = <<LocalBanner,
                         Println2(StatusLabel, <<"2", "0", "0">>),
                         Println2(LengthLabel, IntChars(Len(HelloText))),
                         HelloText>>

----------------------------------------------------------------------------
(* Properties of the github client's output *)

\* C16: the line the github client prints for the body is the text "Data%v",
\* a space, and the body text that was read: the directive is printed as it
\* is written and the body is not put in its place.
C16_LiteralDirective ==
    (prog = "webrequest" /\ cpc \in {"defer", "return", "done"}) =>
        /\ stdout = <<WebBanner, <<"D", "a", "t", "a", "%", "v", " ">> \o data>>
        /\ readErr = NoErr => data = resp.body

\* the github client has printed a body it read whole
C16_Witness ==
    /\ prog = "webrequest" /\ exit = "ok"
    /\ readErr = NoErr /\ data # <<>>
    /\ SubSeq(stdout[2], 1, 6) = <<"D", "a", "t", "a", "%", "v">>

----------------------------------------------------------------------------
(* Properties of the server's log *)

\* the startup lines on the server's console
StartupLines ==
    {i \in 1..Len(console) :
        console[i] = [stream |-> "stdout",
                      text |-> RunningText \o <<"3", "0", "0", "0">>]}

\* C17: the server logs "Server is running on http://localhost:3000" at most
\* once, only once the listen on port 3000 has succeeded and never when the
\* bind failed, and it logs nothing else while it serves requests.
C17_AsStated ==
    /\ Cardinality(StartupLines) <= 1
    /\ StartupLines # {} => srv = "listening"
    /\ BindFailed => StartupLines = {}
    /\ srv = "listening" => Len(console) = 1 /\ StartupLines = {1}

----------------------------------------------------------------------------
(* Properties of the clients on a missing response *)

\* C18: when http.Get fails the response is missing and the client never
\* touches it: it goes from the check to the panic, no close is registered
\* or run, no read is made, and no status code, content length or body is
\* printed.
C18_NilUntouched ==
    (prog \in Clients /\ resp = NoResp) =>
        /\ closed = 0 /\ deferred = <<>>
        /\ data = <<>> /\ readErr = NoErr /\ ~readClosed
        /\ Len(stdout) <= 1
        /\ GetFailed => cpc \in {"check", "dead"}

\* the localhost client has died of a failed GET to a port held by another
\* server, the response untouched
C18_Witness ==
    /\ prog = "webserver" /\ dial = "other"
    /\ GetFailed /\ exit = "panic"
    /\ closed = 0

----------------------------------------------------------------------------
(* Properties of the JSON middleware *)

\* a POST /post whose body is declared as JSON and is not the text of a JSON
\* value
MalformedPost(req) ==
    /\ IsPostRoute(req) /\ req.hasBody /\ req.ctype = "application/json"
    /\ ~JSONparse(req.body).ok

\* C19 as stated: every POST /post whose body is declared as JSON and is not
\* valid JSON is answered with an error by the middleware, the post handler
\* does not run, and no 200 response "Received data: ..." is produced.
C19_AsStated ==
    \A c \in Done :
        MalformedPost(c.req) =>
            /\ c.res.status # 200
            /\ c.res.ran = "none"
            /\ ~HasPrefix(c.res.body, ReceivedPrefix)

\* C19, amended: every POST /post whose body is declared as JSON, is not
\* empty and is not valid JSON is answered 400 by the middleware, the post
\* handler does not run, and no "Received data: ..." response is produced;
\* an empty body declared as JSON is taken as the empty object and the
\* handler answers 200 "Received data: {}".
C19_MalformedRejected ==
    \A c \in Done :
        MalformedPost(c.req) =>
            IF c.req.body = <<>>
            THEN /\ c.res.status = 200 /\ c.res.ran = "post"
                 /\ c.res.body = ReceivedPrefix \o <<"{", "}">>
            ELSE /\ c.res.status = 400
                 /\ c.res.ran = "none"
                 /\ ~HasPrefix(c.res.body, ReceivedPrefix)

\* a POST /post with a truncated JSON object has been answered 400
C19_Witness ==
    \E c \in Done :
        /\ MalformedPost(c.req) /\ c.req.body = BodyTruncated
        /\ c.res.status = 400 /\ c.res.ran = "none"

----------------------------------------------------------------------------
(* Properties of the error example *)

\* C20: doSomething returns an error on every call, so main takes the error
\* branch: it prints "Error: unable to do something" once, never prints
\* "Success", and ends normally without a panic.
C20_ErrorBranch ==
    prog = "errors" =>
        /\ cpc # "main" => err # NoErr
        /\ exit # "panic"
        /\ stdout = IF cpc \in {"main", "check"} THEN <<>>
                    ELSE <<<<"E", "r", "r", "o", "r", ":", " ">> \o UnableText>>
        /\ \A i \in 1..Len(stdout) : stdout[i] # SuccessText
        /\ cpc = "done" <=> exit = "ok"

\* the error example has printed its line and returned
C20_Witness ==
    /\ prog = "errors" /\ exit = "ok"
    /\ Len(stdout) = 1 /\ SubSeq(stdout[1], 1, 6) = ErrorLabel
====
